---- MODULE Spec2Model ----
(***************************************************************************)
(* DoGood volunteer marketplace: browser sessions (React pages) reading    *)
(* and writing rows of a hosted Postgres store.  The store is modelled by  *)
(* its tables, constraints and row-level-security policies as declared in  *)
(* the repository's schema; every page handler is one action per awaited   *)
(* remote call.                                                            *)
(***************************************************************************)
EXTENDS Integers, FiniteSets, Sequences, TLC

\* ---------------------------------------------------------------- bounds
NumSessions == 2
MaxOpps == 1
MaxVolunteersInput == 1
MaxRegs == 3
MaxHoursInput == 3
MaxSaved == 2

\* ------------------------------------------------------ program constants
DefaultMaxVolunteers == 10
DefaultHoursNeeded == 2
DefaultCurrentVolunteers == 0
DefaultHoursCompleted == 0
DefaultTotalHours == 0
DefaultHoursGoal == 100
MinPasswordLength == 6
DefaultText == ""
DefaultCategory == "STEM"
DefaultState == "TX"

\* ------------------------------------------------------------- universes
Students == {"s1", "s2"}
Orgs == {"g1"}
Users == Students \cup Orgs
NoUser == "anonymous"
Sessions == 1..NumSessions
OppIds == 1..MaxOpps
Null == [null |-> TRUE]
StoreResponses == {"ok", "unavailable"}
\* what a student types into the hours field: nothing, one hour, more than any form asks
HoursInputs == {0, 1, MaxHoursInput}
VolunteerInputs == 1..MaxVolunteersInput
\* addresses nobody has signed up with yet
Emails == {"new1@org", "new2@org"}

VARIABLES
    profiles,        \* table profiles: user id -> row
    opportunities,   \* table opportunities: id -> row or Null
    oppCount,        \* number of opportunity ids generated so far
    registrations,   \* table volunteer_registrations: (user, opportunity) -> its rows in insertion order
    saved,           \* table saved_opportunities: (user, opportunity) -> number of its rows
    accounts,        \* sign-ups made from the registration page: email -> user metadata or Null
    user,            \* session -> signed-in user id or NoUser
    view,            \* session -> the mounted page component and its useState values
    pc,              \* session -> handler in flight between two awaited calls
    outcome          \* what the last step showed or logged, "none" after a step that is no handler

vars == <<profiles, opportunities, oppCount, registrations, saved, accounts,
          user, view, pc, outcome>>

storeVars == <<profiles, opportunities, oppCount, registrations, saved, accounts>>

Idle == [op |-> "idle"]

\* a route whose component state the specification at hand leaves out; the browse
\* list is tracked by Opportunities(t, resp) in the specifications about it
Home == [page |-> "home"]

\* ---------------------------------------------------------------- store
\* session primitive: the signed-in actor's profile row, or Null
userProfile(t) == IF user[t] = NoUser THEN Null ELSE profiles[user[t]]

\* policy "Organizations can manage their opportunities"
RlsManageOpportunityOpen(uid, row) == TRUE

RlsManageOpportunity(uid, row) == row.organization_id = uid

\* the SELECT policies of opportunities
RlsSelectOpportunityOpen(uid, row) == TRUE

\* policies "Anyone can view active opportunities" + the owner's FOR ALL policy
RlsSelectOpportunity(uid, row) ==
    row.status = "active" \/ RlsManageOpportunity(uid, row)

\* policy "Users can manage their registrations"
RlsManageRegistration(uid, row) == row.user_id = uid

\* a row's id is its (user, opportunity) pair and its rank among the rows of that pair
RegsOf(u, o) == {<<u, o, k>> : k \in 1..Len(registrations[u, o])}

RegIds == UNION {RegsOf(u, o) : u \in Users, o \in OppIds}

Row(i) == registrations[i[1], i[2]][i[3]]

\* UNIQUE(user_id, opportunity_id) on volunteer_registrations
UniqueRegistrationOff(u, o) == TRUE

UniqueRegistration(u, o) == RegsOf(u, o) = {}

\* opportunity_id REFERENCES opportunities(id), on both child tables
OpportunityReferenced(o) ==
    \/ \E i \in RegIds : Row(i).opportunity_id = o
    \/ \E u \in Users : saved[u, o] > 0

\* what the store answers to INSERT INTO volunteer_registrations
InsertRegistrationError(uid, row) ==
    IF ~RlsManageRegistration(uid, row) THEN "rls_violation"
    ELSE IF row.opportunity_id \notin OppIds \/ opportunities[row.opportunity_id] = Null
         THEN "fk_violation"
    ELSE IF ~UniqueRegistration(row.user_id, row.opportunity_id) THEN "unique_violation"
    ELSE "ok"

\* UPDATE profiles SET <payload> on one row: the named columns take the payload's
\* values (columns the model does not carry are dropped)
UpdateProfileRow(row, payload) ==
    [c \in DOMAIN row |-> IF c \in DOMAIN payload THEN payload[c] ELSE row[c]]

\* a constraint error is the store's answer; otherwise the call may still be lost
Answer(constraint, resp) == IF constraint # "ok" THEN constraint ELSE resp

Init ==
    /\ profiles = [u \in Users |->
          [user_type |-> IF u \in Students THEN "student" ELSE "organization",
           verified |-> FALSE,
           total_hours_logged |-> DefaultTotalHours,
           full_name |-> DefaultText,
           organization_name |-> DefaultText,
           address |-> DefaultText,
           service_hours_goal |-> DefaultHoursGoal]]
    /\ opportunities = [o \in OppIds |-> Null]
    /\ oppCount = 0
    /\ registrations = [p \in Users \X OppIds |-> << >>]
    /\ saved = [p \in Users \X OppIds |-> 0]
    /\ accounts = [e \in Emails |-> Null]
    /\ user = [t \in Sessions |-> NoUser]
    /\ view = [t \in Sessions |-> Home]
    /\ pc = [t \in Sessions |-> Idle]
    /\ outcome = "none"

\* ------------------------------------------------------- session / actors
\* the login page replaces the mounted page
SignIn(t, u) ==
    /\ pc[t] = Idle
    /\ user[t] = NoUser
    /\ user' = [user EXCEPT ![t] = u]
    /\ view' = [view EXCEPT ![t] = Home]
    /\ outcome' = "none"
    /\ UNCHANGED <<storeVars, pc>>

\* Header.handleSignOut: signOut, then navigate('/opportunities')
handleSignOut(t) ==
    /\ pc[t] = Idle
    /\ user[t] # NoUser
    /\ user' = [user EXCEPT ![t] = NoUser]
    /\ view' = [view EXCEPT ![t] = Home]
    /\ outcome' = "none"
    /\ UNCHANGED <<storeVars, pc>>

\* the external trust authority grants or revokes an organization's verification
VerifierSet(g, b) ==
    /\ profiles[g].verified # b
    /\ profiles' = [profiles EXCEPT ![g].verified = b]
    /\ outcome' = "none"
    /\ UNCHANGED <<saved, accounts, opportunities, oppCount, registrations, user, view, pc>>

\* ------------------------------------------------ ForOrganizations page
\* nothing typed into the form since it was opened
NoInput == 0

\* formData at submit: as the useState default or handleEdit filled it, then as
\* handleInputChange overwrote it with what the user typed; hours_needed,
\* cause_category and city are left as the form opened it, which is the default
\* on every path of the dashboard; zip_code is '' in the useState default and ''
\* again after handleEdit
formData(t, typed) ==
    [max_volunteers |->
        IF typed # NoInput THEN typed
        ELSE IF view[t].editingOpportunity # Null
             THEN view[t].editingOpportunity.max_volunteers
             ELSE DefaultMaxVolunteers,
     hours_needed |-> DefaultHoursNeeded,
     cause_category |-> DefaultCategory,
     city |-> DefaultText,
     zip_code |-> DefaultText]

OrgListItem(o, row) == [id |-> o, max_volunteers |-> row.max_volunteers]

\* select * from opportunities where organization_id = user.id, as the policies show it
fetchOrganizationOpportunities(uid, opps) ==
    {OrgListItem(o, opps[o]) : o \in {x \in OppIds : opps[x] # Null
                                        /\ opps[x].organization_id = uid
                                        /\ RlsSelectOpportunity(uid, opps[x])}}

\* route /for-organizations: mount, and the effect that loads an organization's list
ForOrganizations(t) ==
    /\ pc[t] = Idle
    /\ view' = [view EXCEPT ![t] =
          [page |-> "org",
           opportunities |->
               IF user[t] # NoUser /\ userProfile(t).user_type = "organization"
               THEN fetchOrganizationOpportunities(user[t], opportunities)
               ELSE {},
           editingOpportunity |-> Null]]
    /\ view'[t] # view[t]
    /\ outcome' = "none"
    /\ UNCHANGED <<storeVars, user, pc>>

handleEdit(t, item) ==
    /\ pc[t] = Idle
    /\ view[t].page = "org"
    /\ item \in view[t].opportunities
    /\ view' = [view EXCEPT ![t].editingOpportunity = item]
    /\ view'[t] # view[t]
    /\ outcome' = "none"
    /\ UNCHANGED <<storeVars, user, pc>>

cancelForm(t) ==
    /\ pc[t] = Idle
    /\ view[t].page = "org"
    /\ view[t].editingOpportunity # Null
    /\ view' = [view EXCEPT ![t].editingOpportunity = Null]
    /\ outcome' = "none"
    /\ UNCHANGED <<storeVars, user, pc>>

\* the payload handleSubmit builds for both branches
opportunityDataStartsFull(t, typed) ==
    [organization_id |-> user[t],
     max_volunteers |-> formData(t, typed).max_volunteers,
     hours_needed |-> formData(t, typed).hours_needed,
     cause_category |-> formData(t, typed).cause_category,
     city |-> formData(t, typed).city,
     zip_code |-> formData(t, typed).zip_code,
     current_volunteers |-> formData(t, typed).max_volunteers,
     status |-> "active"]

opportunityData(t, typed) ==
    [organization_id |-> user[t],
     max_volunteers |-> formData(t, typed).max_volunteers,
     hours_needed |-> formData(t, typed).hours_needed,
     cause_category |-> formData(t, typed).cause_category,
     city |-> formData(t, typed).city,
     zip_code |-> formData(t, typed).zip_code,
     current_volunteers |-> DefaultCurrentVolunteers,
     status |-> "active"]

\* the role gate of handleSubmit: !user || userProfile?.user_type !== 'organization'
SubmitOnlyOrganizations(t) ==
    user[t] = NoUser \/ userProfile(t).user_type # "organization"

\* the verification gate of handleSubmit: !userProfile?.verified
SubmitNeedsVerificationOff(t) == FALSE

SubmitNeedsVerification(t) == userProfile(t) = Null \/ ~userProfile(t).verified

\* update ... where id = o, restricted by the FOR ALL policy to the owner's rows
UpdateOpportunity(uid, o, data) ==
    IF o \in OppIds /\ opportunities[o] # Null /\ RlsManageOpportunity(uid, opportunities[o])
    THEN [opportunities EXCEPT ![o] = data]
    ELSE opportunities

\* handleSubmit's tail: reset the form and refresh the list
SubmitDone(t, opps) ==
    /\ view' = [view EXCEPT ![t] =
          [page |-> "org",
           opportunities |-> fetchOrganizationOpportunities(user[t], opps),
           editingOpportunity |-> Null]]
    /\ outcome' = "Saved"

SubmitDenied(t, why) ==
    /\ outcome' = why
    /\ UNCHANGED <<storeVars, view>>

handleSubmit(t, typed) ==
    /\ pc[t] = Idle
    /\ view[t].page = "org"
    /\ UNCHANGED <<saved, accounts, user, pc, profiles, registrations>>
    /\ IF SubmitOnlyOrganizations(t)
       THEN SubmitDenied(t, "OnlyOrganizations")
       ELSE IF SubmitNeedsVerification(t)
       THEN SubmitDenied(t, "NotVerified")
       ELSE \E resp \in StoreResponses :
            IF view[t].editingOpportunity # Null
            THEN IF resp = "ok"
                 THEN /\ opportunities' = UpdateOpportunity(user[t], view[t].editingOpportunity.id,
                                                            opportunityData(t, typed))
                      /\ UNCHANGED oppCount
                      /\ SubmitDone(t, opportunities')
                 ELSE /\ outcome' = "SaveFailed"
                      /\ UNCHANGED <<opportunities, oppCount, view>>
            ELSE /\ oppCount < MaxOpps
                 /\ IF resp = "ok"
                    THEN /\ opportunities' = [opportunities EXCEPT ![oppCount + 1] =
                                                    opportunityData(t, typed)]
                         /\ oppCount' = oppCount + 1
                         /\ SubmitDone(t, opportunities')
                    ELSE /\ outcome' = "SaveFailed"
                         /\ UNCHANGED <<opportunities, oppCount, view>>

\* what the store answers to DELETE FROM opportunities WHERE id = o
DeleteOpportunityError(uid, o) ==
    IF opportunities[o] # Null /\ RlsManageOpportunity(uid, opportunities[o])
       /\ OpportunityReferenced(o)
    THEN "fk_violation" ELSE "ok"

handleDelete(t, item) ==
    /\ pc[t] = Idle
    /\ view[t].page = "org"
    /\ item \in view[t].opportunities
    /\ UNCHANGED <<saved, accounts, user, pc, profiles, registrations, oppCount>>
    /\ \E resp \in StoreResponses :
         IF Answer(DeleteOpportunityError(user[t], item.id), resp) = "ok"
         THEN /\ opportunities' =
                    IF opportunities[item.id] # Null
                       /\ RlsManageOpportunity(user[t], opportunities[item.id])
                    THEN [opportunities EXCEPT ![item.id] = Null]
                    ELSE opportunities
              /\ view' = [view EXCEPT ![t].opportunities =
                            fetchOrganizationOpportunities(user[t], opportunities')]
              /\ outcome' = "Deleted"
         ELSE /\ outcome' = "DeleteFailed"
              /\ UNCHANGED <<opportunities, view>>

\* ------------------------------------------------ OpportunityDetail page
\* select ... from opportunities where id = o, .single(): the local copy, or Null when
\* the row is missing or hidden by the policies
fetchOpportunity(uid, o) ==
    IF opportunities[o] # Null /\ RlsSelectOpportunity(uid, opportunities[o])
    THEN [max_volunteers |-> opportunities[o].max_volunteers,
          current_volunteers |-> opportunities[o].current_volunteers]
    ELSE Null

\* policy "Users can manage their saved opportunities"
RlsManageSaved(uid, row) == row.user_id = uid

\* isSaved as checkUserStatus sets it
checkUserStatusSaved(uid, o) ==
    /\ uid # NoUser
    /\ saved[uid, o] > 0
    /\ RlsManageSaved(uid, [user_id |-> uid, opportunity_id |-> o])

\* isRegistered as checkUserStatus sets it
checkUserStatus(uid, o) ==
    /\ uid # NoUser
    /\ \E i \in RegsOf(uid, o) : RlsManageRegistration(uid, Row(i))

\* route /opportunities/:id: mount, and the effect that runs both loads
OpportunityDetail(t, o) ==
    /\ pc[t] = Idle
    /\ view' = [view EXCEPT ![t] =
          [page |-> "detail", id |-> o,
           opportunity |-> fetchOpportunity(user[t], o),
           isSaved |-> checkUserStatusSaved(user[t], o),
           isRegistered |-> checkUserStatus(user[t], o)]]
    /\ view'[t] # view[t]
    /\ outcome' = "none"
    /\ UNCHANGED <<storeVars, user, pc>>

\* the Register button's disabled attribute
RegisterDisabled(opp) == opp.current_volunteers >= opp.max_volunteers

\* the role gate of registerForOpportunity
OnlyStudentsOff(t) == FALSE

OnlyStudents(t) == userProfile(t) = Null \/ userProfile(t).user_type # "student"

NewRegistration(t) ==
    [user_id |-> user[t], opportunity_id |-> view[t].id,
     status |-> "registered", hours_completed |-> DefaultHoursCompleted]

RegisterDenied(t, why) ==
    /\ outcome' = why
    /\ UNCHANGED <<registrations, view, pc>>

\* a click on the "Get Involved" control: the panel shown to a registered user, the
\* disabled button, or registerForOpportunity up to and including its insert
registerForOpportunity(t) ==
    /\ pc[t] = Idle
    /\ view[t].page = "detail"
    /\ view[t].opportunity # Null
    /\ UNCHANGED <<saved, accounts, profiles, opportunities, oppCount, user>>
    /\ IF view[t].isRegistered THEN RegisterDenied(t, "YoureRegistered")
       ELSE IF RegisterDisabled(view[t].opportunity) THEN RegisterDenied(t, "OpportunityFull")
       ELSE IF user[t] = NoUser THEN RegisterDenied(t, "NotAuthenticated")
       ELSE IF OnlyStudents(t) THEN RegisterDenied(t, "OnlyStudents")
       ELSE /\ Cardinality(RegIds) < MaxRegs
            /\ \E resp \in StoreResponses :
                 LET answer == Answer(InsertRegistrationError(user[t], NewRegistration(t)), resp)
                 IN IF answer = "ok"
                    THEN /\ registrations' = [registrations EXCEPT ![user[t], view[t].id] =
                                                Append(@, NewRegistration(t))]
                         /\ view' = [view EXCEPT ![t].isRegistered = TRUE]
                         /\ pc' = [pc EXCEPT ![t] = [op |-> "register_count"]]
                         /\ outcome' = "pending"
                    ELSE RegisterDenied(t, answer)

\* the value registerForOpportunity writes to current_volunteers
NextVolunteers(t) == view[t].opportunity.current_volunteers + 1

\* registerForOpportunity after its insert: the counter update, whose answer is not read
registerCount(t, resp) ==
    /\ pc[t].op = "register_count"
    /\ opportunities' =
          IF resp = "ok" /\ opportunities[view[t].id] # Null
             /\ RlsManageOpportunity(user[t], opportunities[view[t].id])
          THEN [opportunities EXCEPT ![view[t].id].current_volunteers = NextVolunteers(t)]
          ELSE opportunities
    /\ view' = [view EXCEPT ![t].opportunity.current_volunteers = NextVolunteers(t)]
    /\ pc' = [pc EXCEPT ![t] = Idle]
    /\ outcome' = "Registered"
    /\ UNCHANGED <<saved, accounts, profiles, oppCount, registrations, user>>

\* -------------------------------------------------- MyOpportunities page
RegisteredItem(i) ==
    [id |-> i, status |-> Row(i).status, hours_completed |-> Row(i).hours_completed]

\* select * from saved_opportunities where user_id = user.id, as the policies show it:
\* the ids of the rows, a row's id being its pair and its rank among the rows of the pair
fetchUserSaved(uid) ==
    {<<uid, o, k>> : o \in OppIds, k \in 1..MaxSaved} \cap
    {i \in Users \X OppIds \X (1..MaxSaved) :
        i[3] <= saved[i[1], i[2]]
        /\ RlsManageSaved(uid, [user_id |-> i[1], opportunity_id |-> i[2]])}

\* select * from volunteer_registrations where user_id = user.id, as the policies show it
fetchUserOpportunities(uid) ==
    {RegisteredItem(i) : i \in {j \in RegIds : Row(j).user_id = uid
                                  /\ RlsManageRegistration(uid, Row(j))}}

\* route /my-opportunities (protected): mount, and the effect that loads the lists
MyOpportunities(t) ==
    /\ pc[t] = Idle
    /\ user[t] # NoUser
    /\ view' = [view EXCEPT ![t] =
          [page |-> "my",
           savedOpportunities |-> fetchUserSaved(user[t]),
           registeredOpportunities |-> fetchUserOpportunities(user[t])]]
    /\ view'[t] # view[t]
    /\ outcome' = "none"
    /\ UNCHANGED <<storeVars, user, pc>>

\* the Log Hours controls are rendered for items whose status is registered
LogHoursShown(item) == item.status = "registered"

\* the status updateHoursCompleted writes along with the hours
StatusForKept(hours) == "registered"

StatusFor(hours) == IF hours > 0 THEN "completed" ELSE "registered"

RECURSIVE SumHours(_)
SumHours(items) ==
    IF items = {} THEN 0
    ELSE LET x == CHOOSE y \in items : TRUE
         IN x.hours_completed + SumHours(items \ {x})

\* the total updateHoursCompleted computes from the list its closure captured
totalHours(items, hours) == SumHours(items) + hours

\* updateHoursCompleted up to and including the registration update and setState
updateHoursCompleted(t, item, hours) ==
    /\ pc[t] = Idle
    /\ view[t].page = "my"
    /\ item \in view[t].registeredOpportunities
    /\ LogHoursShown(item)
    /\ UNCHANGED <<saved, accounts, profiles, opportunities, oppCount, user>>
    /\ \E resp \in StoreResponses :
         IF resp = "ok"
         THEN /\ registrations' =
                    IF RlsManageRegistration(user[t], Row(item.id))
                    THEN [registrations EXCEPT
                            ![item.id[1], item.id[2]][item.id[3]].hours_completed = hours,
                            ![item.id[1], item.id[2]][item.id[3]].status = StatusFor(hours)]
                    ELSE registrations
              /\ view' = [view EXCEPT ![t].registeredOpportunities =
                    {IF x.id = item.id
                     THEN [x EXCEPT !.hours_completed = hours, !.status = StatusFor(hours)]
                     ELSE x : x \in view[t].registeredOpportunities}]
              /\ pc' = [pc EXCEPT ![t] =
                    [op |-> "hours_total",
                     id |-> item.id,
                     before |-> Row(item.id).hours_completed,
                     total |-> totalHours(view[t].registeredOpportunities, hours)]]
              /\ outcome' = "pending"
         ELSE /\ outcome' = "HoursFailed"
              /\ UNCHANGED <<registrations, view, pc>>

\* the payload of the profile update in updateHoursCompleted
totalHoursPayload(total) == [total_hours_logged |-> total]

\* updateHoursCompleted after setState: the profile update, whose answer is not read
updateTotalHours(t, resp) ==
    /\ pc[t].op = "hours_total"
    /\ profiles' =
          IF userProfile(t) # Null /\ resp = "ok"
          THEN [profiles EXCEPT ![user[t]] =
                  UpdateProfileRow(@, totalHoursPayload(pc[t].total))]
          ELSE profiles
    /\ pc' = [pc EXCEPT ![t] = Idle]
    /\ outcome' = "HoursSaved"
    /\ UNCHANGED <<saved, accounts, opportunities, oppCount, registrations, user, view>>

\* ------------------------------------------------------- specifications
Auth ==
    \E t \in Sessions : (\E u \in Users : SignIn(t, u)) \/ handleSignOut(t)

Verifier ==
    \E g \in Orgs, b \in BOOLEAN : VerifierSet(g, b)

Organization ==
    \E t \in Sessions :
        \/ ForOrganizations(t)
        \/ \E o \in OppIds, v \in VolunteerInputs \cup {DefaultMaxVolunteers} :
              handleEdit(t, [id |-> o, max_volunteers |-> v])
        \/ cancelForm(t)
        \/ \E typed \in VolunteerInputs \cup {NoInput} : handleSubmit(t, typed)
        \/ \E o \in OppIds, v \in VolunteerInputs \cup {DefaultMaxVolunteers} :
              handleDelete(t, [id |-> o, max_volunteers |-> v])

Detail ==
    \E t \in Sessions :
        \/ \E o \in OppIds : OpportunityDetail(t, o)
        \/ registerForOpportunity(t)
        \/ \E resp \in StoreResponses : registerCount(t, resp)

Hours ==
    \E t \in Sessions :
        \/ MyOpportunities(t)
        \/ \E i \in Users \X OppIds \X (1..MaxRegs), h0, h \in HoursInputs :
              updateHoursCompleted(t, [id |-> i, status |-> "registered",
                                       hours_completed |-> h0], h)
        \/ \E resp \in StoreResponses : updateTotalHours(t, resp)

\* the marketplace: organizations post and manage, students register
Next == Auth \/ Verifier \/ Organization \/ Detail

Spec == Init /\ [][Next]_vars

\* the organization dashboard alone
NextOrg == Auth \/ Verifier \/ Organization

SpecOrg == Init /\ [][NextOrg]_vars

\* students registering and logging hours against opportunities a verified
\* organization has posted with the form's defaults
InitHours ==
    /\ profiles = [u \in Users |->
          [user_type |-> IF u \in Students THEN "student" ELSE "organization",
           verified |-> u \in Orgs,
           total_hours_logged |-> DefaultTotalHours,
           full_name |-> DefaultText,
           organization_name |-> DefaultText,
           address |-> DefaultText,
           service_hours_goal |-> DefaultHoursGoal]]
    /\ opportunities = [o \in OppIds |->
          [organization_id |-> CHOOSE g \in Orgs : TRUE,
           max_volunteers |-> DefaultMaxVolunteers,
           hours_needed |-> DefaultHoursNeeded,
           cause_category |-> DefaultCategory,
           city |-> DefaultText,
           zip_code |-> DefaultText,
           current_volunteers |-> DefaultCurrentVolunteers,
           status |-> "active"]]
    /\ oppCount = MaxOpps
    /\ registrations = [p \in Users \X OppIds |-> << >>]
    /\ saved = [p \in Users \X OppIds |-> 0]
    /\ accounts = [e \in Emails |-> Null]
    /\ user = [t \in Sessions |-> NoUser]
    /\ view = [t \in Sessions |-> Home]
    /\ pc = [t \in Sessions |-> Idle]
    /\ outcome = "none"

NextHours == Auth \/ Detail \/ Hours

SpecHours == InitHours /\ [][NextHours]_vars

\* ------------------------------------------------------------ properties
Exists(o) == o \in OppIds /\ opportunities[o] # Null

\* the Registration rows the store holds for opportunity o
RegistrationsFor(o) == {i \in RegIds : Row(i).opportunity_id = o}

IsStudent(u) == u \in Users /\ profiles[u].user_type = "student"

IsOrganization(u) == u \in Users /\ profiles[u].user_type = "organization"

OnDetail(t) == view[t].page = "detail" /\ view[t].opportunity # Null

\* C1: every stored Opportunity has 0 <= current_volunteers <= max_volunteers,
\* in every reachable state, concurrent registrations and edits included.
C1_VolunteersWithinCapacity ==
    \A o \in OppIds :
        Exists(o) =>
            /\ 0 <= opportunities[o].current_volunteers
            /\ opportunities[o].current_volunteers <= opportunities[o].max_volunteers

\* C1 witness: an Opportunity with a single slot for which two students, each in
\* a session of its own, have both completed registerForOpportunity.
C1_Witness ==
    \E o \in OppIds :
        /\ Exists(o)
        /\ opportunities[o].max_volunteers = 1
        /\ \A s \in Students : RegsOf(s, o) # {}
        /\ \A t \in Sessions :
              /\ pc[t] = Idle
              /\ user[t] \in Students
              /\ OnDetail(t) /\ view[t].id = o /\ view[t].isRegistered
        /\ \E t1, t2 \in Sessions : user[t1] # user[t2]

\* C2: a registration is inserted for an Opportunity only while a slot is
\* left, so that of N concurrent calls for one remaining slot exactly one
\* succeeds.
C2_OneSlotOneSuccess ==
    [][\A t \in Sessions :
          (registerForOpportunity(t) /\ registrations' # registrations)
              => Cardinality(RegistrationsFor(view[t].id))
                    < opportunities[view[t].id].max_volunteers]_vars

\* C3: the counter step of a successful registration raises the stored
\* current_volunteers of the Opportunity by exactly 1.
C3_IncrementByOne ==
    [][\A t \in Sessions, resp \in StoreResponses :
          (registerCount(t, resp) /\ Exists(view[t].id))
              => opportunities'[view[t].id].current_volunteers
                    = opportunities[view[t].id].current_volunteers + 1]_vars

RECURSIVE SumRows(_)
SumRows(ids) ==
    IF ids = {} THEN 0
    ELSE LET i == CHOOSE j \in ids : TRUE
         IN Row(i).hours_completed + SumRows(ids \ {i})

\* the sum of hours_completed over the Registrations of student s
HoursOf(s) == SumRows({i \in RegIds : Row(i).user_id = s})

HoursUpdateInFlight(s) == \E t \in Sessions : user[t] = s /\ pc[t].op = "hours_total"

\* C4: whenever no hours update of a student is in flight, the student's
\* total_hours_logged equals the sum of hours_completed over the student's
\* Registrations.
C4_TotalIsSumOfHours ==
    \A s \in Students :
        ~HoursUpdateInFlight(s) => profiles[s].total_hours_logged = HoursOf(s)

\* C5: the store never holds two Registrations for one (user, opportunity)
\* pair, and a registerForOpportunity by a user who already holds one is
\* answered as a duplicate and changes no Registration and no Opportunity.
C5_OneRegistrationPerPair ==
    /\ [](\A u \in Users, o \in OppIds : Cardinality(RegsOf(u, o)) <= 1)
    /\ [][\A t \in Sessions :
            (/\ registerForOpportunity(t)
             /\ user[t] # NoUser
             /\ RegsOf(user[t], view[t].id) # {})
                => /\ registrations' = registrations
                   /\ opportunities' = opportunities
                   /\ pc'[t] = Idle
                   /\ outcome' \in {"YoureRegistered", "unique_violation"}]_vars

\* C5 witness: the store has refused a second insert for a pair that already
\* has its Registration.
C5_Witness ==
    /\ outcome = "unique_violation"
    /\ \E t \in Sessions :
          /\ OnDetail(t) /\ ~view[t].isRegistered
          /\ user[t] \in Students
          /\ Cardinality(RegsOf(user[t], view[t].id)) = 1

\* C6: an operation whose second remote call fails leaves none of its effects:
\* no Registration without its counter step, no hours without their total.
C6_OneLogicalUnit ==
    [][\A t \in Sessions :
          /\ registerCount(t, "unavailable")
                => registrations'[user[t], view[t].id] = << >>
          /\ updateTotalHours(t, "unavailable")
                => registrations'[pc[t].id[1], pc[t].id[2]][pc[t].id[3]].hours_completed
                      = pc[t].before]_vars

SubmitInputs == VolunteerInputs \cup {NoInput}

OnDashboard(t) == view[t].page = "org"

Creating(t) == OnDashboard(t) /\ view[t].editingOpportunity = Null

Editing(t) == OnDashboard(t) /\ view[t].editingOpportunity # Null

\* C7: a create by an organization whose profile is not verified is answered
\* NotVerified and stores nothing; once the profile is verified the create is
\* no longer refused, and when the store accepts it the new Opportunity is there.
C7_VerificationGate ==
    [][\A t \in Sessions, typed \in SubmitInputs :
          (handleSubmit(t, typed) /\ Creating(t) /\ IsOrganization(user[t]))
              => IF ~profiles[user[t]].verified
                 THEN outcome' = "NotVerified" /\ opportunities' = opportunities
                 ELSE /\ outcome' \in {"Saved", "SaveFailed"}
                      /\ outcome' = "Saved"
                            => /\ opportunities[oppCount'] = Null
                               /\ opportunities'[oppCount'].organization_id = user[t]]_vars

\* C7 witness: an organization that started unverified has been verified and
\* its create has been saved.
C7_Witness ==
    /\ outcome = "Saved"
    /\ \E t \in Sessions :
          /\ Creating(t)
          /\ IsOrganization(user[t])
          /\ profiles[user[t]].verified
          /\ \E o \in OppIds : Exists(o) /\ opportunities[o].organization_id = user[t]

\* C8: every Opportunity that enters the store is inserted from the session of
\* a verified organization, carries that organization's id, starts with
\* current_volunteers 0 and status active; no other actor inserts one.
C8_InsertedByVerifiedOrganization ==
    [][\A o \in OppIds :
          (opportunities[o] = Null /\ opportunities'[o] # Null)
              => /\ opportunities'[o].current_volunteers = 0
                 /\ opportunities'[o].status = "active"
                 /\ \E t \in Sessions :
                       /\ OnDashboard(t)
                       /\ user[t] = opportunities'[o].organization_id
                       /\ IsOrganization(user[t])
                       /\ profiles[user[t]].verified]_vars

\* C8 witness: the newest Opportunity is listed on the dashboard of the
\* organization that has just inserted it with a capacity it typed.
C8_Witness ==
    \E t \in Sessions :
        /\ OnDashboard(t)
        /\ outcome = "Saved"
        /\ oppCount \in OppIds
        /\ Exists(oppCount)
        /\ opportunities[oppCount].organization_id = user[t]
        /\ opportunities[oppCount].max_volunteers \in VolunteerInputs
        /\ \E item \in view[t].opportunities : item.id = oppCount

\* C9: the owning organization's update of its own Opportunity is never refused
\* for lack of verification.
C9_OwnerUpdateNotReverified ==
    [][\A t \in Sessions, typed \in SubmitInputs :
          (/\ handleSubmit(t, typed)
           /\ Editing(t)
           /\ IsOrganization(user[t])
           /\ Exists(view[t].editingOpportunity.id)
           /\ opportunities[view[t].editingOpportunity.id].organization_id = user[t])
              => outcome' # "NotVerified"]_vars

\* C10: a Registration enters the store only for a student signed in to the
\* inserting session, and a registerForOpportunity by an anonymous visitor or
\* an organization is refused and changes no Registration and no Opportunity.
C10_OnlyStudentsRegister ==
    [][/\ \A u \in Users, o \in OppIds :
             Len(registrations'[u, o]) > Len(registrations[u, o])
                 => IsStudent(u) /\ \E t \in Sessions : user[t] = u /\ OnDetail(t)
       /\ \A t \in Sessions :
             (registerForOpportunity(t) /\ ~IsStudent(user[t]))
                 => /\ registrations' = registrations
                    /\ opportunities' = opportunities
                    /\ pc'[t] = Idle
                    /\ outcome' = IF user[t] = NoUser THEN "NotAuthenticated"
                                  ELSE "OnlyStudents"]_vars

\* C10 witness: an organization has pressed Register on an Opportunity with a
\* free slot and was refused, while a student holds a Registration for it.
C10_Witness ==
    /\ outcome = "OnlyStudents"
    /\ \E t \in Sessions :
          /\ OnDetail(t)
          /\ IsOrganization(user[t])
          /\ ~RegisterDisabled(view[t].opportunity)
          /\ \E s \in Students : RegsOf(s, view[t].id) # {}

\* the page of session t shows what a load at this moment would show
Fresh(t) ==
    /\ OnDetail(t)
    /\ view[t].opportunity = fetchOpportunity(user[t], view[t].id)
    /\ view[t].isRegistered = checkUserStatus(user[t], view[t].id)

\* no other session has a handler in flight
Quiet(t) == \A t2 \in Sessions \ {t} : pc[t2] = Idle

\* C11: registrations made one after the other, each from a freshly loaded
\* page: while a slot is left the insert is not refused for capacity and its
\* counter step leaves current_volunteers one higher with status still
\* active; once as many Registrations exist as max_volunteers, a further
\* student is refused as full and no Registration is created.
C11_SequentialFill ==
    [][\A t \in Sessions :
          /\ (/\ registerForOpportunity(t)
              /\ Fresh(t) /\ Quiet(t)
              /\ IsStudent(user[t])
              /\ RegsOf(user[t], view[t].id) = {})
                => IF Cardinality(RegistrationsFor(view[t].id))
                        >= opportunities[view[t].id].max_volunteers
                   THEN outcome' = "OpportunityFull" /\ registrations' = registrations
                   ELSE outcome' # "OpportunityFull"
          /\ (/\ registerCount(t, "ok")
              /\ Quiet(t)
              /\ Exists(view[t].id)
              /\ view[t].opportunity.current_volunteers
                    = opportunities[view[t].id].current_volunteers)
                => /\ opportunities'[view[t].id].current_volunteers
                         = opportunities[view[t].id].current_volunteers + 1
                   /\ opportunities'[view[t].id].status = "active"]_vars

\* ------------------------------------------------- opportunity status
\* the values the status column admits
OpportunityStatuses == {"active", "inactive", "completed"}

\* a write of opportunities.status made outside the pages (no handler of the
\* application writes a status other than active)
StatusSet(o, s) ==
    /\ opportunities[o] # Null
    /\ opportunities[o].status # s
    /\ opportunities' = [opportunities EXCEPT ![o].status = s]
    /\ outcome' = "none"
    /\ UNCHANGED <<saved, accounts, profiles, oppCount, registrations, user, view, pc>>

Status == \E o \in OppIds, s \in OpportunityStatuses : StatusSet(o, s)

NextStatus == Auth \/ Detail \/ Status

\* students registering while opportunities are closed and reopened
SpecStatus == InitHours /\ [][NextStatus]_vars

\* C12: a registerForOpportunity against an Opportunity whose stored status is
\* not active is refused and creates no Registration.
C12_InactiveTargetDenied ==
    [][\A t \in Sessions :
          (/\ registerForOpportunity(t)
           /\ Exists(view[t].id)
           /\ opportunities[view[t].id].status # "active")
              => /\ registrations' = registrations
                 /\ pc'[t] = Idle
                 /\ outcome' # "pending"]_vars

\* hours_needed of the Opportunity a Registration row belongs to
HoursNeededOf(i) == opportunities[Row(i).opportunity_id].hours_needed

InRange(i, hours) == 0 <= hours /\ hours <= HoursNeededOf(i)

\* C13: every stored Registration has 0 <= hours_completed <= hours_needed of
\* its Opportunity, and a Save with hours outside that range is refused as
\* InvalidRange without a write to the store.
C13_HoursWithinRange ==
    /\ [](\A i \in RegIds : InRange(i, Row(i).hours_completed))
    /\ [][\A t \in Sessions, h \in HoursInputs :
            \A item \in (IF view[t].page = "my"
                         THEN view[t].registeredOpportunities ELSE {}) :
                (updateHoursCompleted(t, item, h) /\ ~InRange(item.id, h))
                    => /\ registrations' = registrations
                       /\ outcome' = "InvalidRange"]_vars

\* the items of the registered list of session t, if that list is mounted
ListedItems(t) ==
    IF view[t].page = "my" THEN view[t].registeredOpportunities ELSE {}

\* C14: an accepted Save of hours stores status completed when hours > 0 and
\* registered when hours = 0, together with the hours, and the item shown in
\* the list carries the same status as the stored row.
C14_StatusFollowsHours ==
    [][\A t \in Sessions, h \in HoursInputs :
          \A item \in ListedItems(t) :
              (updateHoursCompleted(t, item, h) /\ outcome' = "pending")
                  => LET id == item.id
                         stored == registrations'[id[1], id[2]][id[3]]
                     IN /\ stored.hours_completed = h
                        /\ h > 0 => stored.status = "completed"
                        /\ h = 0 => stored.status = "registered"
                        /\ \A x \in view'[t].registeredOpportunities :
                              x.id = id => x.status = stored.status]_vars

\* C14 witness: a student has saved fewer hours than the Opportunity needs;
\* the stored row and the listed item are both completed.
C14_Witness ==
    \E t \in Sessions :
        /\ pc[t].op = "hours_total"
        /\ Row(pc[t].id).hours_completed > 0
        /\ Row(pc[t].id).hours_completed < HoursNeededOf(pc[t].id)
        /\ Row(pc[t].id).status = "completed"
        /\ \E x \in ListedItems(t) : x.id = pc[t].id /\ x.status = "completed"

\* --------------------------------------------------------- Profile page
\* what a user types into the text fields and the goal field of the profile form
TextInputs == {DefaultText, "a"}

GoalInputs == {DefaultHoursGoal, 50}

\* formData as the effect fills it from userProfile when the page mounts: the
\* three stored names and the goal, and fixed values for the address fields
Profile_initialFormData(t) ==
    [full_name |-> userProfile(t).full_name,
     service_hours_goal |-> userProfile(t).service_hours_goal,
     organization_name |-> userProfile(t).organization_name,
     address |-> DefaultText, city |-> DefaultText, state |-> DefaultState,
     zip_code |-> DefaultText, phone |-> DefaultText]

\* formData after handleInputChange has put text into every text field and goal
\* into the goal field
Profile_typedFormData(text, goal) ==
    [full_name |-> text, service_hours_goal |-> goal, organization_name |-> text,
     address |-> text, city |-> text, state |-> text, zip_code |-> text, phone |-> text]

\* what formData can hold when the form is submitted: what the page holds already,
\* or what the user types over it
ProfileForms(t) ==
    (IF view[t].page = "profile" THEN {view[t].formData} ELSE {})
        \cup {Profile_typedFormData(text, goal) : text \in TextInputs, goal \in GoalInputs}

\* every value formData can take
AllProfileForms ==
    {Profile_typedFormData(text, goal) : text \in TextInputs, goal \in GoalInputs}
        \cup {[Profile_typedFormData(DefaultText, goal) EXCEPT
                  !.full_name = name, !.organization_name = organization,
                  !.state = DefaultState] :
               name \in TextInputs, organization \in TextInputs, goal \in GoalInputs}

\* route /profile (protected): mount
Profile(t) ==
    /\ pc[t] = Idle
    /\ user[t] # NoUser
    /\ view[t].page # "profile"
    /\ view' = [view EXCEPT ![t] =
          [page |-> "profile", formData |-> Profile_initialFormData(t)]]
    /\ outcome' = "none"
    /\ UNCHANGED <<storeVars, user, pc>>

\* the updates object handleSubmit builds in its student branch
studentUpdatesVerified(form) ==
    [full_name |-> form.full_name, service_hours_goal |-> form.service_hours_goal,
     verified |-> TRUE]

studentUpdates(form) ==
    [full_name |-> form.full_name, service_hours_goal |-> form.service_hours_goal]

\* the updates object handleSubmit builds in its organization branch
organizationUpdatesVerified(form) ==
    [full_name |-> form.full_name, organization_name |-> form.organization_name,
     address |-> form.address, city |-> form.city, state |-> form.state,
     zip_code |-> form.zip_code, phone |-> form.phone, verified |-> TRUE]

organizationUpdates(form) ==
    [full_name |-> form.full_name, organization_name |-> form.organization_name,
     address |-> form.address, city |-> form.city, state |-> form.state,
     zip_code |-> form.zip_code, phone |-> form.phone]

updates(t, form) ==
    IF userProfile(t) = Null THEN << >>
    ELSE IF userProfile(t).user_type = "student" THEN studentUpdates(form)
    ELSE IF userProfile(t).user_type = "organization" THEN organizationUpdates(form)
    ELSE << >>

\* session primitive updateProfile: writes the payload to the signed-in user's row
updateProfile(t, payload, resp) ==
    IF resp = "ok" /\ user[t] # NoUser
    THEN [profiles EXCEPT ![user[t]] = UpdateProfileRow(@, payload)]
    ELSE profiles

\* Profile.handleSubmit, with the typing that precedes it
Profile_handleSubmit(t, form) ==
    /\ pc[t] = Idle
    /\ view[t].page = "profile"
    /\ form \in ProfileForms(t)
    /\ view' = [view EXCEPT ![t].formData = form]
    /\ \E resp \in StoreResponses :
          /\ profiles' = updateProfile(t, updates(t, form), resp)
          /\ outcome' = IF resp = "ok" THEN "ProfileUpdated" ELSE "ProfileFailed"
    /\ UNCHANGED <<opportunities, oppCount, registrations, saved, accounts, user, pc>>

Profiles ==
    \E t \in Sessions :
        \/ Profile(t)
        \/ \E form \in AllProfileForms : Profile_handleSubmit(t, form)

NextProfile == Auth \/ Verifier \/ Profiles

\* accounts editing their profiles while the verifier works
SpecProfile == Init /\ [][NextProfile]_vars

\* every payload the pages can send to profiles from the current state
ProfilePayloads ==
    UNION {{updates(t, form) : form \in ProfileForms(t)} : t \in Sessions}
        \cup {totalHoursPayload(h) : h \in HoursInputs}

\* C15: no payload the pages send to profiles names the verified column, and a
\* profile's verified flag changes only in a step of the external verifier.
C15_VerifiedNotWritable ==
    /\ [](\A p \in ProfilePayloads : "verified" \notin DOMAIN p)
    /\ [][\A u \in Users :
            profiles'[u].verified # profiles[u].verified
                => \E b \in BOOLEAN : VerifierSet(u, b)]_vars

\* C15 witness: an organization the verifier has verified has saved an edited
\* profile.
C15_Witness ==
    /\ outcome = "ProfileUpdated"
    /\ \E t \in Sessions :
          /\ view[t].page = "profile"
          /\ IsOrganization(user[t])
          /\ profiles[user[t]].organization_name # DefaultText
          /\ profiles[user[t]].verified

\* C16: the profile of every student has verified = FALSE in every state.
C16_StudentsNeverVerified ==
    \A u \in Users : IsStudent(u) => ~profiles[u].verified

\* C16 witness: a student has saved an edited profile with a new goal.
C16_Witness ==
    /\ outcome = "ProfileUpdated"
    /\ \E t \in Sessions :
          /\ view[t].page = "profile"
          /\ IsStudent(user[t])
          /\ profiles[user[t]].full_name # DefaultText
          /\ profiles[user[t]].service_hours_goal # DefaultHoursGoal

\* ------------------------------------------- OrganizationRegister page
\* what is typed into password and confirmPassword
PasswordInputs == {"12345", "123456", "abcdef"}

\* route /register/organization: mount
OrganizationRegister(t) ==
    /\ pc[t] = Idle
    /\ view[t].page # "register"
    /\ view' = [view EXCEPT ![t] = [page |-> "register"]]
    /\ outcome' = "none"
    /\ UNCHANGED <<storeVars, user, pc>>

\* the two validations of OrganizationRegister.handleSubmit
PasswordsDoNotMatch(password, confirmPassword) == password # confirmPassword

PasswordTooShort(password) == Len(password) < MinPasswordLength

\* the user metadata handed to signUp
userDataVerified(text) ==
    [full_name |-> text, user_type |-> "organization", organization_name |-> text,
     verified |-> TRUE, address |-> text, phone |-> text]

userData(text) ==
    [full_name |-> text, user_type |-> "organization", organization_name |-> text,
     verified |-> FALSE, address |-> text, phone |-> text]

\* session primitive signUp: the answer of the auth service
signUpError(email, resp) ==
    IF accounts[email] # Null THEN "already_registered" ELSE resp

\* OrganizationRegister.handleSubmit; a sign-up that succeeds navigates to the
\* dashboard, the new account stays signed out until its address is confirmed
OrganizationRegister_handleSubmit(t, email, password, confirmPassword) ==
    /\ pc[t] = Idle
    /\ view[t].page = "register"
    /\ UNCHANGED <<profiles, opportunities, oppCount, registrations, saved, user, pc>>
    /\ IF PasswordsDoNotMatch(password, confirmPassword)
       THEN outcome' = "PasswordsDoNotMatch" /\ UNCHANGED <<accounts, view>>
       ELSE IF PasswordTooShort(password)
       THEN outcome' = "PasswordTooShort" /\ UNCHANGED <<accounts, view>>
       ELSE \E resp \in StoreResponses :
              IF signUpError(email, resp) = "ok"
              THEN /\ accounts' = [accounts EXCEPT ![email] = userData("a")]
                   /\ view' = [view EXCEPT ![t] =
                         [page |-> "org",
                          opportunities |->
                              IF user[t] # NoUser /\ userProfile(t).user_type = "organization"
                              THEN fetchOrganizationOpportunities(user[t], opportunities)
                              ELSE {},
                          editingOpportunity |-> Null]]
                   /\ outcome' = "SignedUp"
              ELSE /\ outcome' = "SignUpFailed"
                   /\ UNCHANGED <<accounts, view>>

Register ==
    \E t \in Sessions :
        \/ OrganizationRegister(t)
        \/ \E email \in Emails, password, confirmPassword \in PasswordInputs :
              OrganizationRegister_handleSubmit(t, email, password, confirmPassword)

NextRegister == Auth \/ Register

\* organizations signing up
SpecRegister == Init /\ [][NextRegister]_vars

\* C17: an account enters the auth service from the registration page only with
\* user_type organization and verified = FALSE, and only in a submit whose
\* password equals confirmPassword and has at least 6 characters; a submit that
\* fails either check creates no account.
C17_OrganizationsStartUnverified ==
    /\ [][\A email \in Emails :
            (accounts[email] = Null /\ accounts'[email] # Null)
                => /\ accounts'[email].verified = FALSE
                   /\ accounts'[email].user_type = "organization"
                   /\ \E t \in Sessions, password \in PasswordInputs :
                         /\ OrganizationRegister_handleSubmit(t, email, password, password)
                         /\ Len(password) >= 6]_vars
    /\ [][\A t \in Sessions, email \in Emails, password, confirmPassword \in PasswordInputs :
            (/\ OrganizationRegister_handleSubmit(t, email, password, confirmPassword)
             /\ (password # confirmPassword \/ Len(password) < 6))
                => /\ accounts' = accounts
                   /\ outcome' \in {"PasswordsDoNotMatch", "PasswordTooShort"}]_vars

\* C17 witness: one organization has signed up and is unverified, and a later
\* submit for another address was refused for its password.
C17_Witness ==
    /\ outcome \in {"PasswordsDoNotMatch", "PasswordTooShort"}
    /\ \E email \in Emails : accounts[email] # Null /\ ~accounts[email].verified
    /\ \E email \in Emails : accounts[email] = Null

\* ------------------------------------------------------------ bookmarks
\* UNIQUE(user_id, opportunity_id) on saved_opportunities
UniqueSavedOff(u, o) == TRUE

UniqueSaved(u, o) == saved[u, o] = 0

\* what the store answers to INSERT INTO saved_opportunities
InsertSavedError(uid, row) ==
    IF ~RlsManageSaved(uid, row) THEN "rls_violation"
    ELSE IF row.opportunity_id \notin OppIds \/ opportunities[row.opportunity_id] = Null
         THEN "fk_violation"
    ELSE IF ~UniqueSaved(row.user_id, row.opportunity_id) THEN "unique_violation"
    ELSE "ok"

NewSaved(t) == [user_id |-> user[t], opportunity_id |-> view[t].id]

\* the answer of the one remote call toggleSave makes, which toggleSave does not read
toggleSaveAnswer(t, resp) ==
    IF view[t].isSaved THEN resp
    ELSE Answer(InsertSavedError(user[t], NewSaved(t)), resp)

\* the heart button of the detail page
toggleSave(t, resp) ==
    /\ pc[t] = Idle
    /\ view[t].page = "detail"
    /\ view[t].opportunity # Null
    /\ UNCHANGED <<profiles, opportunities, oppCount, registrations, accounts, user, pc>>
    /\ IF user[t] = NoUser
       THEN /\ outcome' = "NotAuthenticated"
            /\ UNCHANGED <<saved, view>>
       ELSE IF view[t].isSaved
       THEN /\ saved' = IF toggleSaveAnswer(t, resp) = "ok"
                           /\ RlsManageSaved(user[t], NewSaved(t))
                        THEN [saved EXCEPT ![user[t], view[t].id] = 0]
                        ELSE saved
            /\ view' = [view EXCEPT ![t].isSaved = FALSE]
            /\ outcome' = "BookmarkRemoved"
       ELSE /\ toggleSaveAnswer(t, resp) = "ok" => saved[user[t], view[t].id] < MaxSaved
            /\ saved' = IF toggleSaveAnswer(t, resp) = "ok"
                        THEN [saved EXCEPT ![user[t], view[t].id] = @ + 1]
                        ELSE saved
            /\ view' = [view EXCEPT ![t].isSaved = TRUE]
            /\ outcome' = "BookmarkAdded"

\* the remove button of the saved list; the answer of the delete is not read
removeSavedOpportunity(t, savedId, resp) ==
    /\ pc[t] = Idle
    /\ view[t].page = "my"
    /\ savedId \in view[t].savedOpportunities
    /\ saved' = IF /\ resp = "ok"
                   /\ savedId[3] <= saved[savedId[1], savedId[2]]
                   /\ RlsManageSaved(user[t], [user_id |-> savedId[1],
                                               opportunity_id |-> savedId[2]])
                THEN [saved EXCEPT ![savedId[1], savedId[2]] = @ - 1]
                ELSE saved
    /\ view' = [view EXCEPT ![t].savedOpportunities = @ \ {savedId}]
    /\ outcome' = "BookmarkRemoved"
    /\ UNCHANGED <<profiles, opportunities, oppCount, registrations, accounts, user, pc>>

Bookmarks ==
    \E t \in Sessions :
        \/ \E o \in OppIds : OpportunityDetail(t, o)
        \/ MyOpportunities(t)
        \/ \E resp \in StoreResponses : toggleSave(t, resp)
        \/ \E savedId \in Users \X OppIds \X (1..MaxSaved), resp \in StoreResponses :
              removeSavedOpportunity(t, savedId, resp)

NextSaved == Auth \/ Bookmarks

\* signed-in users bookmarking the opportunities a verified organization has posted
SpecSaved == InitHours /\ [][NextSaved]_vars

\* C18: a row of saved_opportunities is inserted or deleted only for a student
\* who is signed in to some session; no organization and no anonymous visitor
\* causes an insert or a delete, and no delete touches another user's rows.
C18_BookmarksByOwningStudent ==
    [][\A u \in Users, o \in OppIds :
          saved'[u, o] # saved[u, o]
              => IsStudent(u) /\ \E t \in Sessions : user[t] = u]_vars

\* C19: the store holds at most one saved_opportunities row per
\* (user, opportunity) pair in every state.
C19_OneBookmarkPerPair ==
    \A u \in Users, o \in OppIds : saved[u, o] <= 1

\* C19 witness: two sessions of one student show the same Opportunity as saved
\* right after a toggle that took the insert branch, and the store holds one row.
C19_Witness ==
    /\ outcome = "BookmarkAdded"
    /\ \E u \in Students, o \in OppIds :
          /\ saved[u, o] = 1
          /\ \A t \in Sessions :
                user[t] = u /\ OnDetail(t) /\ view[t].id = o /\ view[t].isSaved

\* C20: a remote call that fails leaves the page state of its session as it
\* was: the isSaved and isRegistered flags, the saved and registered lists and
\* the local current_volunteers copy.
C20_FailureKeepsLocalState ==
    [][\A t \in Sessions :
          /\ \A resp \in StoreResponses :
                (toggleSave(t, resp) /\ user[t] # NoUser /\ toggleSaveAnswer(t, resp) # "ok")
                    => view'[t] = view[t]
          /\ \A savedId \in Users \X OppIds \X (1..MaxSaved) :
                removeSavedOpportunity(t, savedId, "unavailable") => view'[t] = view[t]
          /\ (registerForOpportunity(t) /\ pc'[t] = Idle) => view'[t] = view[t]
          /\ registerCount(t, "unavailable") => view'[t] = view[t]
          /\ \A h \in HoursInputs : \A item \in ListedItems(t) :
                (updateHoursCompleted(t, item, h) /\ outcome' = "HoursFailed")
                    => view'[t] = view[t]]_vars

\* the outcomes a page shows for a handler that went through
SuccessOutcomes ==
    {"Saved", "Deleted", "Registered", "HoursSaved", "BookmarkAdded", "BookmarkRemoved"}

\* C21: a store write that returns an error never ends in a success outcome:
\* the counter update of a registration, the total-hours update, the bookmark
\* insert and delete each surface their error.
C21_NoSwallowedError ==
    [][\A t \in Sessions :
          /\ registerCount(t, "unavailable") => outcome' \notin SuccessOutcomes
          /\ updateTotalHours(t, "unavailable") => outcome' \notin SuccessOutcomes
          /\ \A resp \in StoreResponses :
                (toggleSave(t, resp) /\ user[t] # NoUser /\ toggleSaveAnswer(t, resp) # "ok")
                    => outcome' \notin SuccessOutcomes
          /\ \A savedId \in Users \X OppIds \X (1..MaxSaved) :
                removeSavedOpportunity(t, savedId, "unavailable")
                    => outcome' \notin SuccessOutcomes]_vars

\* the marketplace together with the heart button of the detail page
NextGates == Next \/ (\E t \in Sessions, resp \in StoreResponses : toggleSave(t, resp))

SpecGates == Init /\ [][NextGates]_vars

\* the actor of session t is a signed-in student
StudentActor(t) == user[t] # NoUser /\ IsStudent(user[t])

\* the actor of session t is a signed-in, verified organization
VerifiedOrganizationActor(t) ==
    user[t] # NoUser /\ IsOrganization(user[t]) /\ profiles[user[t]].verified

\* C22: registerForOpportunity and toggleSave invoked by an actor who is not a
\* signed-in student, and the opportunity form submitted by an actor who is not a
\* verified organization, issue no store write.
C22_DeniedLocally ==
    [][\A t \in Sessions :
          /\ (registerForOpportunity(t) /\ ~StudentActor(t)) => UNCHANGED storeVars
          /\ \A typed \in SubmitInputs :
                (handleSubmit(t, typed) /\ ~VerifiedOrganizationActor(t))
                    => UNCHANGED storeVars
          /\ \A resp \in StoreResponses :
                (toggleSave(t, resp) /\ ~StudentActor(t)) => UNCHANGED storeVars]_vars

\* ------------------------------------------------ Opportunities page (browse list)
MaxHoursNeeded == 6

\* an organization account other than the ones that sign in here
OtherOrg == "g2"

\* two of the five categories
categories == {DefaultCategory, "Health"}

hoursOptions == {"<2", "2-5", "5+"}

Cities == {"austin", "dallas"}

\* what is typed into the location box
LocationInputs == {"a", "dal"}

\* the useState default of the three filters
NoFilter == ""

\* registered students and posted opportunities: the profiles of InitHours and the
\* given opportunity rows
InitPosted(rows) ==
    /\ profiles = [u \in Users |->
          [user_type |-> IF u \in Students THEN "student" ELSE "organization",
           verified |-> u \in Orgs,
           total_hours_logged |-> DefaultTotalHours,
           full_name |-> DefaultText,
           organization_name |-> DefaultText,
           address |-> DefaultText,
           service_hours_goal |-> DefaultHoursGoal]]
    /\ opportunities = rows
    /\ oppCount = MaxOpps
    /\ registrations = [p \in Users \X OppIds |-> << >>]
    /\ saved = [p \in Users \X OppIds |-> 0]
    /\ accounts = [e \in Emails |-> Null]
    /\ user = [t \in Sessions |-> NoUser]
    /\ view = [t \in Sessions |-> Home]
    /\ pc = [t \in Sessions |-> Idle]
    /\ outcome = "none"

\* a row as the form posts it, with the fields an organization fills in
PostedRow(owner, category, hours, city, zip) ==
    [organization_id |-> owner,
     max_volunteers |-> DefaultMaxVolunteers,
     hours_needed |-> hours,
     cause_category |-> category,
     city |-> city,
     zip_code |-> zip,
     current_volunteers |-> DefaultCurrentVolunteers,
     status |-> "active"]

\* pattern occurs in text: LIKE '%pattern%'
Contains(text, pattern) ==
    \E i \in 0..(Len(text) - Len(pattern)) : SubSeq(text, i + 1, i + Len(pattern)) = pattern

\* .ilike('city', `%${selectedLocation}%`); cities and inputs are lower case here
ilike(text, pattern) == Contains(text, pattern)

\* the hours branch of the query fetchOpportunities builds
HoursMatchesBelowFive(selectedHours, hours_needed) ==
    IF selectedHours = "<2" THEN hours_needed < 2
    ELSE IF selectedHours = "2-5" THEN hours_needed >= 2 /\ hours_needed < 5
    ELSE IF selectedHours = "5+" THEN hours_needed > 5
    ELSE TRUE

HoursMatches(selectedHours, hours_needed) ==
    IF selectedHours = "<2" THEN hours_needed < 2
    ELSE IF selectedHours = "2-5" THEN hours_needed >= 2 /\ hours_needed <= 5
    ELSE IF selectedHours = "5+" THEN hours_needed > 5
    ELSE TRUE

\* the filters fetchOpportunities adds to its query for the given selection
FiltersMatch(row, selectedCategory, selectedHours, selectedLocation) ==
    /\ selectedCategory # NoFilter => row.cause_category = selectedCategory
    /\ selectedHours # NoFilter => HoursMatches(selectedHours, row.hours_needed)
    /\ selectedLocation # NoFilter => ilike(row.city, selectedLocation)

BrowseItem(o, row) ==
    [id |-> o, cause_category |-> row.cause_category,
     hours_needed |-> row.hours_needed, city |-> row.city]

\* the rows the query of fetchOpportunities returns to uid for the given selection
fetchOpportunities(uid, selectedCategory, selectedHours, selectedLocation) ==
    {BrowseItem(o, opportunities[o]) :
        o \in {x \in OppIds : /\ opportunities[x] # Null
                              /\ RlsSelectOpportunity(uid, opportunities[x])
                              /\ opportunities[x].status = "active"
                              /\ FiltersMatch(opportunities[x], selectedCategory,
                                              selectedHours, selectedLocation)}}

\* route /opportunities: mount, and the effect with the empty dependency list, which
\* runs fetchOpportunities once under the filters' initial values; on an error the
\* list keeps its initial value. The search box is left empty, so the displayed
\* filteredOpportunities is the list itself.
Opportunities(t, resp) ==
    /\ pc[t] = Idle
    /\ view' = [view EXCEPT ![t] =
          [page |-> "browse",
           opportunities |->
               IF resp = "ok"
               THEN fetchOpportunities(user[t], NoFilter, NoFilter, NoFilter)
               ELSE {},
           selectedCategory |-> NoFilter,
           selectedHours |-> NoFilter,
           selectedLocation |-> NoFilter]]
    /\ view'[t] # view[t]
    /\ outcome' = IF resp = "ok" THEN "none" ELSE "FetchFailed"
    /\ UNCHANGED <<storeVars, user, pc>>

setSelectedCategory(t, value) ==
    /\ view[t].page = "browse"
    /\ view[t].selectedCategory # value
    /\ view' = [view EXCEPT ![t].selectedCategory = value]
    /\ outcome' = "none"
    /\ UNCHANGED <<storeVars, user, pc>>

setSelectedHours(t, value) ==
    /\ view[t].page = "browse"
    /\ view[t].selectedHours # value
    /\ view' = [view EXCEPT ![t].selectedHours = value]
    /\ outcome' = "none"
    /\ UNCHANGED <<storeVars, user, pc>>

setSelectedLocation(t, value) ==
    /\ view[t].page = "browse"
    /\ view[t].selectedLocation # value
    /\ view' = [view EXCEPT ![t].selectedLocation = value]
    /\ outcome' = "none"
    /\ UNCHANGED <<storeVars, user, pc>>

clearFilters(t) ==
    /\ view[t].page = "browse"
    /\ <<view[t].selectedCategory, view[t].selectedHours, view[t].selectedLocation>>
          # <<NoFilter, NoFilter, NoFilter>>
    /\ view' = [view EXCEPT ![t].selectedCategory = NoFilter,
                            ![t].selectedHours = NoFilter,
                            ![t].selectedLocation = NoFilter]
    /\ outcome' = "none"
    /\ UNCHANGED <<storeVars, user, pc>>

Browse ==
    \E t \in Sessions :
        \/ \E resp \in StoreResponses : Opportunities(t, resp)
        \/ \E value \in categories \cup {NoFilter} : setSelectedCategory(t, value)
        \/ \E value \in hoursOptions \cup {NoFilter} : setSelectedHours(t, value)
        \/ \E value \in LocationInputs \cup {NoFilter} : setSelectedLocation(t, value)
        \/ clearFilters(t)

\* one posted opportunity of any category, length and city
InitBrowse ==
    \E category \in categories, hours \in 1..MaxHoursNeeded, city \in Cities :
        InitPosted([o \in OppIds |->
            PostedRow(CHOOSE g \in Orgs : TRUE, category, hours, city, DefaultText)])

\* visitors of the browse list; every step the page can take is eventually taken
SpecBrowse == InitBrowse /\ [][Browse]_vars /\ WF_vars(Browse)

OnBrowse(t) == view[t].page = "browse"

\* the three filters of session t
Selection(t) ==
    <<view[t].selectedCategory, view[t].selectedHours, view[t].selectedLocation>>

Selections ==
    (categories \cup {NoFilter}) \X (hoursOptions \cup {NoFilter})
        \X (LocationInputs \cup {NoFilter})

\* session t has a category, an hours bucket or a location selected
FilterSelected(t) == OnBrowse(t) /\ Selection(t) # <<NoFilter, NoFilter, NoFilter>>

\* every displayed opportunity matches every selected filter
DisplayedMatches(t) ==
    \A item \in view[t].opportunities :
        FiltersMatch(item, view[t].selectedCategory, view[t].selectedHours,
                     view[t].selectedLocation)

\* C24: once a visitor of the browse list has a category, an hours bucket or a
\* location selected, the displayed list eventually contains only opportunities
\* that match every selected filter, unless the visitor changes the selection
\* again or leaves the page.
C24_FilterEventuallyApplies ==
    \A t \in Sessions : \A f \in Selections :
        (FilterSelected(t) /\ Selection(t) = f)
            ~> (~OnBrowse(t) \/ Selection(t) # f \/ DisplayedMatches(t))

\* fetchOpportunities as a function of the selection: the query it builds for the
\* filters session t has selected, run against the store. The page runs it at mount
\* only; this step applies it to every selection the controls offer.
fetchOpportunitiesSelected(t) ==
    /\ pc[t] = Idle
    /\ view[t].page = "browse"
    /\ view' = [view EXCEPT ![t].opportunities =
          fetchOpportunities(user[t], view[t].selectedCategory, view[t].selectedHours,
                             view[t].selectedLocation)]
    /\ view'[t] # view[t]
    /\ outcome' = "none"
    /\ UNCHANGED <<storeVars, user, pc>>

NextQuery == Browse \/ (\E t \in Sessions : fetchOpportunitiesSelected(t))

\* the query of the browse list under every selection
SpecQuery == InitBrowse /\ [][NextQuery]_vars

\* what the query returns to a visitor with only the hours option selected
ByHours(option) == fetchOpportunities(NoUser, NoFilter, option, NoFilter)

\* C30: the options '<2', '2-5' and '5+' partition the opportunities by
\* hours_needed: every opportunity the unfiltered query returns is returned under
\* exactly one of the three options, and one needing 2 or 5 hours under '2-5'.
C30_HoursOptionsPartition ==
    /\ UNION {ByHours(option) : option \in hoursOptions} = ByHours(NoFilter)
    /\ \A a, b \in hoursOptions : a # b => ByHours(a) \cap ByHours(b) = {}
    /\ \A item \in ByHours(NoFilter) :
          item.hours_needed \in {2, 5} => item \in ByHours("2-5")

\* a visitor has '2-5' selected and the query has returned an opportunity that
\* needs exactly 5 hours
C30_Witness ==
    \E t \in Sessions :
        /\ OnBrowse(t)
        /\ Selection(t) = <<NoFilter, "2-5", NoFilter>>
        /\ view[t].opportunities = ByHours("2-5")
        /\ \E item \in view[t].opportunities : item.hours_needed = 5

\* ------------------------------------------------ reading opportunities
\* one opportunity posted with the form's defaults, by the organization that signs
\* in here or by another one
InitRead ==
    \E owner \in Orgs \cup {OtherOrg} :
        InitPosted([o \in OppIds |->
            PostedRow(owner, DefaultCategory, DefaultHoursNeeded, DefaultText, DefaultText)])

NextRead ==
    \/ Auth
    \/ Status
    \/ \E t \in Sessions :
          \/ \E resp \in StoreResponses : Opportunities(t, resp)
          \/ ForOrganizations(t)
          \/ \E o \in OppIds : OpportunityDetail(t, o)

\* the three pages that read opportunities, while their status changes
SpecRead == InitRead /\ [][NextRead]_vars

\* the ids a page lists
ListedIds(t) == {item.id : item \in view[t].opportunities}

\* C23: a load of the browse list returns exactly the active opportunities, a load
\* of an organization's dashboard returns exactly the opportunities it owns whatever
\* their status, and the detail page obtains an opportunity exactly when it is
\* active or owned by the signed-in user.
C23_ReadOpportunity ==
    [][\A t \in Sessions :
          /\ Opportunities(t, "ok") =>
                ListedIds(t)' = {o \in OppIds : Exists(o) /\ opportunities[o].status = "active"}
          /\ (ForOrganizations(t) /\ user[t] # NoUser /\ IsOrganization(user[t])) =>
                ListedIds(t)' = {o \in OppIds : Exists(o)
                                     /\ opportunities[o].organization_id = user[t]}
          /\ \A o \in OppIds :
                OpportunityDetail(t, o) =>
                    (view'[t].opportunity # Null
                        <=> (Exists(o) /\ (opportunities[o].status = "active"
                                           \/ opportunities[o].organization_id = user[t])))]_vars

\* an inactive opportunity is on its owner's dashboard while a visitor's browse
\* list, loaded without error, is empty
C23_Witness ==
    \E t1, t2 \in Sessions, o \in OppIds :
        /\ Exists(o)
        /\ opportunities[o].status = "inactive"
        /\ OnDashboard(t1)
        /\ user[t1] = opportunities[o].organization_id
        /\ o \in ListedIds(t1)
        /\ OnBrowse(t2)
        /\ view[t2].opportunities = {}
        /\ outcome = "none"

\* ------------------------------------------------ editing a posted opportunity
\* what an organization typed into the ZIP code field when it posted
ZipInputs == {DefaultText, "77001"}

\* one opportunity posted by the organization, with or without a ZIP code
InitEdit ==
    \E zip \in ZipInputs :
        InitPosted([o \in OppIds |->
            PostedRow(CHOOSE g \in Orgs : TRUE, DefaultCategory, DefaultHoursNeeded,
                      DefaultText, zip)])

NextEdit == Auth \/ Organization \/ Status

\* the dashboard of an organization whose opportunity is closed and reopened
SpecEdit == InitEdit /\ [][NextEdit]_vars

\* session t submits the edit form for a stored opportunity of its own and the
\* update goes through
EditSaved(t, typed) ==
    /\ handleSubmit(t, typed)
    /\ Editing(t)
    /\ Exists(view[t].editingOpportunity.id)
    /\ opportunities[view[t].editingOpportunity.id].organization_id = user[t]
    /\ outcome' = "Saved"

\* C25: a successful submit of the edit form leaves the opportunity's stored
\* current_volunteers and status as they were.
C25_EditKeepsCountAndStatus ==
    [][\A t \in Sessions, typed \in SubmitInputs :
          EditSaved(t, typed) =>
              LET o == view[t].editingOpportunity.id
              IN /\ opportunities'[o].current_volunteers = opportunities[o].current_volunteers
                 /\ opportunities'[o].status = opportunities[o].status]_vars

C26_CountEqualsRegistrations ==
    (\A t \in Sessions : pc[t] = Idle) =>
        \A o \in OppIds :
            Exists(o) => opportunities[o].current_volunteers = Cardinality(RegistrationsFor(o))

\* C29: a registration whose stored status is completed is not written again:
\* its hours_completed and status stay as they are.
C29_CompletedIsAbsorbing ==
    [][\A i \in RegIds :
          Row(i).status = "completed" =>
              /\ Len(registrations'[i[1], i[2]]) >= i[3]
              /\ registrations'[i[1], i[2]][i[3]] = Row(i)]_vars

\* session t, an organization, submits the profile form as the page filled it from
\* the stored profile, and the update goes through
UntouchedProfileSaved(t) ==
    /\ user[t] # NoUser
    /\ IsOrganization(user[t])
    /\ view[t].page = "profile"
    /\ view[t].formData = Profile_initialFormData(t)
    /\ Profile_handleSubmit(t, view[t].formData)
    /\ outcome' = "ProfileUpdated"

\* C28: an organization that saves the profile form without changing any field
\* leaves its stored profile as it was.
C28_UntouchedSaveKeepsProfile ==
    [][\A t \in Sessions : UntouchedProfileSaved(t) => profiles' = profiles]_vars
====
